---- MODULE Spec2Model ----
(***************************************************************************)
(* Listening-time aggregation and caching core of lastfm-time-tracker      *)
(* (src/app.py): the track duration cache, the daily aggregate cache, the  *)
(* paginated listening-history client, the track-metadata client, the      *)
(* daily aggregator and the weekly aggregator, run by concurrent request   *)
(* threads of the web server.                                              *)
(***************************************************************************)
EXTENDS Integers, Sequences, FiniteSets, TLC

\* ------------------------------------------------------------- bounds ----
\* Requests one worker thread serves before it stops taking new ones.
MaxRequests == 2
\* Scrobbles the upstream history can hold over all days.
MaxScrobbles == 2
\* Last calendar day the clock reaches (days are numbered from 0).
MaxToday == 1
\* Upstream and file-system faults injected over one run.
MaxFaults == 1
\* Tracks the upstream puts on one page (stands for limit=200).
PageSize == 1
\* Weekly requests in progress at the same time.
MaxWeekly == 1
\* Largest per_page and largest page number a daily-view request asks for.
MaxPerPage == 2
MaxPage == 2
\* Rows of a duration file found at process start.
MaxFileRows == 3
\* Longest list the pagination arithmetic is checked on.
MaxListed == 5
\* Largest total of seconds the h/m/s conversion is checked on.
MaxSeconds == 7500
\* Tracks on one page and largest totalPages of an arbitrary page response.
MaxRawLen == 2
MaxDeclared == 3

\* ------------------------------------------------- program constants ----
DEFAULT_DURATION == 180
MsPerSecond == 1000
DaysPerWeek == 7
SecondsPerHour == 3600
SecondsPerMinute == 60
DaySeconds == 86400
DEFAULT_ITEMS_PER_PAGE == 10

\* --------------------------------------------------------- input sets ----
Threads == {1, 2}
Users == {"alice"}
\* (artist, track_name) pairs known upstream, each name a text.
KeyA == <<<<"a">>, <<"0">>>>
KeyB == <<<<"b">>, <<"t">>>>
Keys == {KeyA, KeyB}
\* Duration in milliseconds that track.getInfo reports for a key.
TrackMs == [k \in Keys |-> IF k = KeyA THEN 200500 ELSE 0]
StartDates == {0}
\* per_page and page of a daily-view request.
PerPages == 0 .. MaxPerPage
CurrentPages == 1 .. MaxPage
Dates == 0 .. (DaysPerWeek - 1)

NoLock == 0

Max(a, b) == IF a >= b THEN a ELSE b
Min(a, b) == IF a <= b THEN a ELSE b
CeilDiv(n, p) == (n + p - 1) \div p

\* ------------------------------------------------------ pure functions ---

\* Variant of TimeOf that takes the minutes from the total, not from the
\* remainder of the hours.
TimeOfNoRemainder(total_seconds) ==
    [hours |-> total_seconds \div SecondsPerHour,
     minutes |-> total_seconds \div SecondsPerMinute,
     seconds |-> total_seconds % SecondsPerMinute,
     total_seconds |-> total_seconds]

\* divmod chain of calculate_listening_time.
TimeOf(total_seconds) ==
    [hours |-> total_seconds \div SecondsPerHour,
     minutes |-> (total_seconds % SecondsPerHour) \div SecondsPerMinute,
     seconds |-> (total_seconds % SecondsPerHour) % SecondsPerMinute,
     total_seconds |-> total_seconds]

ZeroTime == [hours |-> 0, minutes |-> 0, seconds |-> 0, total_seconds |-> 0]

\* Replies of track.getInfo: a transport failure, a document without the
\* duration field, or a document reporting ms milliseconds.
NoReply == [kind |-> "none", ms |-> 0]
TrackReplies(k) ==
    {[kind |-> "transport", ms |-> 0], [kind |-> "nofield", ms |-> 0],
     [kind |-> "ms", ms |-> TrackMs[k]]}

\* Durations, in milliseconds, that a track.getInfo document can report:
\* negative, zero, below one second, whole seconds, seconds and a rest.
ReportedMs == {-1500, -1, 0, 999, 1000, 200500}

\* Every outcome of the track.getInfo request: the replies above with any
\* reported duration, and a duration field that int() rejects.
AnyTrackReplies ==
    {[kind |-> "transport", ms |-> 0], [kind |-> "nofield", ms |-> 0],
     [kind |-> "notint", ms |-> 0]}
    \cup {[kind |-> "ms", ms |-> m] : m \in ReportedMs}

\* Duration that get_track_duration derives from the upstream reply.
DurationFromReply(reply) ==
    IF reply.kind = "ms"
    THEN LET duration == reply.ms \div MsPerSecond
         IN IF duration > 0 THEN duration ELSE DEFAULT_DURATION
    ELSE DEFAULT_DURATION

\* dict[key] = value.
Put(cache, key, value) ==
    [x \in DOMAIN cache \cup {key} |-> IF x = key THEN value ELSE cache[x]]

\* ---- the text of song_durations.csv ----

\* A text is a sequence of one-character strings. The texts of the model
\* are made of the characters below, letters and "_".
COMMA == ","
QUOTE == "\""
CR == "\r"
LF == "\n"
Digits == <<"0", "1", "2", "3", "4", "5", "6", "7", "8", "9">>
DigitSet == {Digits[i] : i \in DOMAIN Digits}
DigitValue(c) == (CHOOSE i \in DOMAIN Digits : Digits[i] = c) - 1

\* str(n) of an integer.
RECURSIVE DecimalOf(_)
DecimalOf(n) ==
    IF n < 0 THEN <<"-">> \o DecimalOf(-n)
    ELSE IF n < Len(Digits) THEN <<Digits[n + 1]>>
    ELSE DecimalOf(n \div Len(Digits)) \o <<Digits[(n % Len(Digits)) + 1]>>

\* int(text): white space around the number is dropped, a sign may lead,
\* and single underscores may stand between digits. The white space is
\* space, tab, line feed, vertical tab, form feed, carriage return, next
\* line (U+0085) and no-break space (U+00A0).
VT == ""
FF == "\f"
NEL == ""
NBSP == " "
Whitespace == {" ", "\t", CR, LF, VT, FF, NEL, NBSP}
RECURSIVE LStrip(_)
LStrip(text) ==
    IF text # <<>> /\ Head(text) \in Whitespace THEN LStrip(Tail(text))
    ELSE text
RECURSIVE RStrip(_)
RStrip(text) ==
    IF text # <<>> /\ text[Len(text)] \in Whitespace
    THEN RStrip(SubSeq(text, 1, Len(text) - 1))
    ELSE text
Unsigned(text) ==
    LET s == RStrip(LStrip(text))
    IN IF s # <<>> /\ s[1] \in {"+", "-"} THEN Tail(s) ELSE s
IsIntText(text) ==
    LET u == Unsigned(text)
    IN /\ u # <<>>
       /\ \A i \in 1 .. Len(u) : u[i] \in DigitSet \cup {"_"}
       /\ u[1] # "_" /\ u[Len(u)] # "_"
       /\ \A i \in 1 .. Len(u) - 1 : ~(u[i] = "_" /\ u[i + 1] = "_")
RECURSIVE DigitsValue(_, _)
DigitsValue(u, acc) ==
    IF u = <<>> THEN acc
    ELSE IF Head(u) = "_" THEN DigitsValue(Tail(u), acc)
    ELSE DigitsValue(Tail(u), acc * Len(Digits) + DigitValue(Head(u)))
IntOf(text) ==
    LET s == RStrip(LStrip(text))
        v == DigitsValue(Unsigned(text), 0)
    IN IF s[1] = "-" THEN -v ELSE v

\* csv.writer.writerow: a field with a comma, a quote or a line end is
\* put in quotes with its quotes doubled; fields are joined by commas and
\* the line ends with "\r\n".
NeedsQuotes(field) ==
    \E i \in 1 .. Len(field) : field[i] \in {COMMA, QUOTE, CR, LF}
RECURSIVE DoubleQuotes(_)
DoubleQuotes(field) ==
    IF field = <<>> THEN <<>>
    ELSE (IF Head(field) = QUOTE THEN <<QUOTE, QUOTE>> ELSE <<Head(field)>>)
         \o DoubleQuotes(Tail(field))
CsvField(field) ==
    IF NeedsQuotes(field) THEN <<QUOTE>> \o DoubleQuotes(field) \o <<QUOTE>>
    ELSE field
RECURSIVE JoinFields(_)
JoinFields(fields) ==
    IF fields = <<>> THEN <<>>
    ELSE IF Len(fields) = 1 THEN CsvField(fields[1])
    ELSE CsvField(fields[1]) \o <<COMMA>> \o JoinFields(Tail(fields))
CsvLine(fields) ==
    (IF fields = <<<<>>>> THEN <<QUOTE, QUOTE>> ELSE JoinFields(fields))
    \o <<CR, LF>>
RECURSIVE BytesOf(_)
BytesOf(rows) ==
    IF rows = <<>> THEN <<>> ELSE CsvLine(Head(rows)) \o BytesOf(Tail(rows))

\* csv.reader on a file opened with newline="": the reader's state machine,
\* fed the bytes line by line. p is the parser: its state, its position
\* in the bytes, the field and the fields read so far of the running row,
\* and the rows returned.
EndOfLine(p) ==
    IF p.state \in {"START_FIELD", "IN_FIELD", "QUOTE_IN_QUOTED_FIELD"}
    THEN [p EXCEPT !.state = "START_RECORD", !.field = <<>>,
                   !.fields = <<>>,
                   !.rows = Append(@, Append(p.fields, p.field))]
    ELSE IF p.state = "EAT_CRNL"
    THEN [p EXCEPT !.state = "START_RECORD", !.field = <<>>,
                   !.fields = <<>>, !.rows = Append(@, p.fields)]
    ELSE p

SaveField(p, state) ==
    [p EXCEPT !.state = state, !.field = <<>>,
              !.fields = Append(@, p.field)]

AddChar(p, c, state) ==
    [p EXCEPT !.state = state, !.field = Append(@, c)]

ProcessChar(p, c) ==
    LET newline == c \in {CR, LF}
        state == IF p.state = "START_RECORD" /\ ~newline THEN "START_FIELD"
                 ELSE p.state
    IN IF state = "START_RECORD" THEN [p EXCEPT !.state = "EAT_CRNL"]
       ELSE IF state = "START_FIELD" THEN
            IF newline THEN SaveField(p, "EAT_CRNL")
            ELSE IF c = QUOTE THEN [p EXCEPT !.state = "IN_QUOTED_FIELD"]
            ELSE IF c = COMMA THEN SaveField(p, "START_FIELD")
            ELSE AddChar(p, c, "IN_FIELD")
       ELSE IF state = "IN_FIELD" THEN
            IF newline THEN SaveField(p, "EAT_CRNL")
            ELSE IF c = COMMA THEN SaveField(p, "START_FIELD")
            ELSE AddChar(p, c, "IN_FIELD")
       ELSE IF state = "IN_QUOTED_FIELD" THEN
            IF c = QUOTE THEN [p EXCEPT !.state = "QUOTE_IN_QUOTED_FIELD"]
            ELSE AddChar(p, c, "IN_QUOTED_FIELD")
       ELSE IF state = "QUOTE_IN_QUOTED_FIELD" THEN
            IF c = QUOTE THEN AddChar(p, c, "IN_QUOTED_FIELD")
            ELSE IF c = COMMA THEN SaveField(p, "START_FIELD")
            ELSE IF newline THEN SaveField(p, "EAT_CRNL")
            ELSE AddChar(p, c, "IN_FIELD")
       ELSE p

\* The reader takes a line of the file: the bytes from p.pos up to "\n",
\* "\r\n" or a lone "\r", or up to the end of the file, go through the
\* state machine one by one, and then the end of the line does.
RECURSIVE ReadLine(_, _)
ReadLine(bytes, p) ==
    LET i == p.pos
        c == bytes[i]
        q == [ProcessChar(p, c) EXCEPT !.pos = i + 1]
    IN IF i > Len(bytes) THEN EndOfLine(p)
       ELSE IF \/ c = LF
               \/ c = CR /\ ~(i < Len(bytes) /\ bytes[i + 1] = LF)
       THEN EndOfLine(q)
       ELSE ReadLine(bytes, q)

\* Line after line until the file is exhausted; a row still inside a
\* quoted field is then returned as it stands.
RECURSIVE ReadFrom(_, _)
ReadFrom(bytes, p) ==
    IF p.pos > Len(bytes)
    THEN IF p.state = "IN_QUOTED_FIELD"
         THEN Append(p.rows, Append(p.fields, p.field))
         ELSE p.rows
    ELSE ReadFrom(bytes, ReadLine(bytes, p))

CsvRows(bytes) ==
    ReadFrom(bytes, [state |-> "START_RECORD", pos |-> 1, field |-> <<>>,
                     fields |-> <<>>, rows |-> <<>>])

\* The row of column names and the row of a song.
HeaderRow ==
    <<<<"a", "r", "t", "i", "s", "t">>,
      <<"t", "r", "a", "c", "k", "_", "n", "a", "m", "e">>,
      <<"d", "u", "r", "a", "t", "i", "o", "n">>>>
SongRow(key, duration) == <<key[1], key[2], DecimalOf(duration)>>

\* A row load_song_cache is to take: three fields, the third an integer.
WellFormedRow(row) == Len(row) >= 3 /\ IsIntText(row[3])

\* No file.
EmptyFile == [exists |-> FALSE, bytes |-> <<>>]

\* The `for row in reader` loop of load_song_cache: a row of fewer than
\* three fields is passed over; int(row[2]) raising ends the loop in the
\* except, and the cache built so far is returned.
RECURSIVE LoadRows(_, _)
LoadRows(rows, cache) ==
    IF rows = <<>> THEN cache
    ELSE LET row == Head(rows)
         IN IF Len(row) < 3 THEN LoadRows(Tail(rows), cache)
            ELSE IF ~IsIntText(row[3]) THEN cache
            ELSE LoadRows(Tail(rows),
                          Put(cache, <<row[1], row[2]>>, IntOf(row[3])))

\* load_song_cache: the first row is skipped as the header.
load_song_cache(file) ==
    IF ~file.exists THEN <<>>
    ELSE LET rows == CsvRows(file.bytes)
         IN IF rows = <<>> THEN <<>> ELSE LoadRows(Tail(rows), <<>>)

\* load_daily_stats_cache: the document's daily_stats, or nothing when the
\* file is absent or cannot be parsed.
load_daily_stats_cache(file) ==
    IF file.state = "written" THEN file.doc ELSE <<>>

\* Variant of CacheHit that never finds the key.
CacheHitNever(cache, key) == FALSE

\* `cache_key in song_duration_cache`.
CacheHit(cache, key) == key \in DOMAIN cache

\* start_timestamp and end_timestamp of get_scrobbles_and_time.
StartTimestamp(date) == date * DaySeconds
EndTimestamp(date) == (date + 1) * DaySeconds - 1

\* Variant of InsertDesc that puts an entry before those of equal timestamp.
RECURSIVE InsertDescUnstable(_, _)
InsertDescUnstable(sorted, e) ==
    IF sorted = <<>> THEN <<e>>
    ELSE IF Head(sorted).timestamp > e.timestamp
         THEN <<Head(sorted)>> \o InsertDescUnstable(Tail(sorted), e)
         ELSE <<e>> \o sorted

\* scrobbles.sort(key=timestamp, reverse=True): stable, newest first.
RECURSIVE InsertDesc(_, _)
InsertDesc(sorted, e) ==
    IF sorted = <<>> THEN <<e>>
    ELSE IF Head(sorted).timestamp >= e.timestamp
         THEN <<Head(sorted)>> \o InsertDesc(Tail(sorted), e)
         ELSE <<e>> \o sorted
RECURSIVE SortDesc(_)
SortDesc(s) ==
    IF s = <<>> THEN <<>>
    ELSE InsertDesc(SortDesc(SubSeq(s, 1, Len(s) - 1)), s[Len(s)])

\* Normalisation of one page of raw tracks: now-playing entries are skipped.
RECURSIVE Normalize(_)
Normalize(tracks) ==
    IF tracks = <<>> THEN <<>>
    ELSE IF Head(tracks).nowplaying THEN Normalize(Tail(tracks))
         ELSE <<[key |-> Head(tracks).key, timestamp |-> Head(tracks).uts,
                 duration |-> 0]>> \o Normalize(Tail(tracks))

\* Python slice s[start:end]: negative indices count from the end, both
\* are clamped to the list.
PySlice(s, start, end) ==
    LET n == Len(s)
        lo == IF start < 0 THEN Max(n + start, 0) ELSE Min(start, n)
        hi == IF end < 0 THEN Max(n + end, 0) ELSE Min(end, n)
    IN IF lo < hi THEN SubSeq(s, lo + 1, hi) ELSE <<>>

\* math.ceil(total_scrobbles / per_page) for per_page >= 1.
PageCount(total_scrobbles, per_page) ==
    IF total_scrobbles % per_page = 0 THEN total_scrobbles \div per_page
    ELSE total_scrobbles \div per_page + 1

\* Variant of PageOf that starts the slice one page too far.
PageOfNextPage(all_scrobbles, current_page, per_page) ==
    PySlice(all_scrobbles, current_page * per_page,
            current_page * per_page + per_page)

\* The slice of all_scrobbles that index shows for current_page.
PageOf(all_scrobbles, current_page, per_page) ==
    LET start_idx == (current_page - 1) * per_page
        end_idx == start_idx + per_page
    IN PySlice(all_scrobbles, start_idx, end_idx)

\* Sum of the durations recorded on the tracks.
RECURSIVE SumDurations(_)
SumDurations(s) ==
    IF s = <<>> THEN 0 ELSE Head(s).duration + SumDurations(Tail(s))


\* -------------------------------------------------------------- state ----
VARIABLES
    song_duration_cache,  \* in-memory mirror: (artist, track) -> seconds
    song_file,            \* song_durations.csv: exists flag and bytes
    daily_stats_cache,    \* in-memory mirror: <<username, date>> -> stats
    daily_file,           \* daily_stats.json: absent, truncated or written
    cache_lock,           \* holder of cache_lock, NoLock when free
    daily_cache_lock,     \* holder of daily_cache_lock, NoLock when free
    today,                \* current calendar day of the server clock
    hist,                 \* upstream history: day -> keys in order of play
    faults,               \* faults injected so far
    served,               \* requests each thread has taken
    loc                   \* locals and position of each request thread

vars == <<song_duration_cache, song_file, daily_stats_cache, daily_file,
          cache_lock, daily_cache_lock, today, hist, faults, served, loc>>

\* Locals of a thread that serves no request.
\* The worker of the one-thread specification; the others take no request
\* there.
Main == CHOOSE t \in Threads : \A o \in Threads : t <= o

LocInit ==
    [pc |-> "idle", kind |-> "none", username |-> "", date_str |-> 0,
     page |-> 1, total_pages |-> 1, scrobbles |-> <<>>, idx |-> 1,
     total_seconds |-> 0, total_time |-> ZeroTime, reply |-> NoReply,
     duration |-> 0, hit |-> FALSE, write_ok |-> FALSE,
     file_exists |-> FALSE, start_date |-> 0, today_str |-> 0,
     day_offset |-> 0, weekly_data |-> <<>>, weekly_totals |-> ZeroTime,
     total_tracks |-> 0, error |-> "none",
     per_page |-> DEFAULT_ITEMS_PER_PAGE, current_page |-> 1,
     page_count |-> 0, total_scrobbles |-> 0, shown |-> <<>>,
     \* history variables: requests sent by this handler and for this day,
     \* the fault of the last page response, the days that raised
     netcalls |-> 0, daycalls |-> 0, page_fault |-> "none", failed |-> {},
     \* log of the running get_user_scrobbles call: the pages requested,
     \* the totalPages each response declared, the raw tracks received
     reqs |-> <<>>, declared |-> <<>>, raw |-> <<>>]

Init ==
    /\ song_duration_cache = <<>>
    /\ song_file = EmptyFile
    /\ daily_stats_cache = <<>>
    /\ daily_file = [state |-> "absent", doc |-> <<>>]
    /\ cache_lock = NoLock
    /\ daily_cache_lock = NoLock
    /\ today = 0
    /\ hist = [d \in Dates |-> <<>>]
    /\ faults = 0
    /\ served = [t \in Threads |-> IF t = Main THEN 0 ELSE MaxRequests]
    /\ loc = [t \in Threads |-> LocInit]

\* ----------------------------------------------------------- upstream ----

\* Scrobbles of one day as the upstream lists them, newest first.
EventsOf(d) ==
    [i \in 1 .. Len(hist[d]) |->
        [key |-> hist[d][Len(hist[d]) - i + 1],
         uts |-> StartTimestamp(d) + (Len(hist[d]) - i),
         nowplaying |-> FALSE]]

InWindow(e, from, to) == from <= e.uts /\ e.uts <= to

RECURSIVE WindowFrom(_, _, _)
WindowFrom(d, from, to) ==
    IF d < 0 THEN <<>>
    ELSE SelectSeq(EventsOf(d), LAMBDA e : InWindow(e, from, to))
         \o WindowFrom(d - 1, from, to)

\* user.getrecenttracks for a window: all matching scrobbles, newest first.
RecentTracks(from, to) == WindowFrom(DaysPerWeek - 1, from, to)

NowPlaying == [key |-> KeyA, uts |-> 0, nowplaying |-> TRUE]

\* Tracks and pages an arbitrary response can carry.
RawTracks ==
    {[key |-> k, uts |-> u, nowplaying |-> FALSE] : k \in Keys, u \in {0, 1}}
    \cup {NowPlaying}
RawPages ==
    UNION {[1 .. n -> RawTracks] : n \in 0 .. MaxRawLen}

\* The document the upstream returns for one page of a window.
PageReply(from, to, page, playing) ==
    LET all == RecentTracks(from, to)
        lo == (page - 1) * PageSize + 1
        hi == Min(page * PageSize, Len(all))
    IN [tracks |-> (IF playing THEN <<NowPlaying>> ELSE <<>>)
                    \o SubSeq(all, lo, hi),
        totalPages |-> CeilDiv(Len(all), PageSize)]

RECURSIVE TotalScrobbles(_)
TotalScrobbles(d) ==
    IF d < 0 THEN 0 ELSE Len(hist[d]) + TotalScrobbles(d - 1)

\* The clock is read when a request starts and today's history when a page
\* response for today is built: a change between two such points is the
\* same as a change just before the next one.
CanStart(t) == loc[t].pc = "idle" /\ served[t] < MaxRequests
ClockObserved ==
    \E t \in Threads : CanStart(t) \/ loc[t].pc = "gus_wait"
HistoryObserved ==
    \E t \in Threads :
        \/ CanStart(t)
        \/ loc[t].pc = "gus_wait" /\ loc[t].date_str = today

\* The user plays one more track today.
Scrobble ==
    /\ HistoryObserved
    /\ \E k \in Keys :
        /\ TotalScrobbles(DaysPerWeek - 1) < MaxScrobbles
        /\ hist' = [hist EXCEPT ![today] = Append(@, k)]
    /\ UNCHANGED <<song_duration_cache, song_file, daily_stats_cache,
                   daily_file, cache_lock, daily_cache_lock, today, faults,
                   served, loc>>

\* Midnight: the server clock moves to the next day.
Tick ==
    /\ ClockObserved
    /\ today < MaxToday
    /\ today' = today + 1
    /\ UNCHANGED <<song_duration_cache, song_file, daily_stats_cache,
                   daily_file, cache_lock, daily_cache_lock, hist, faults,
                   served, loc>>


\* ------------------------------------------------------- request threads -

SetLoc(t, l) == loc' = [loc EXCEPT ![t] = l]

\* One element of weekly_data (presentation labels left out).
DayRecord(day_str, total_time, scrobble_count) ==
    [date |-> day_str, total_time |-> total_time,
     scrobble_count |-> scrobble_count,
     total_seconds |-> total_time.total_seconds,
     hours |-> total_time.hours, minutes |-> total_time.minutes]

\* The record the weekly loop builds in its except branch.
ErrorDayRecord(day_str) == DayRecord(day_str, ZeroTime, 0)

\* Variant of ServeFromCache without the `day_str != today_str` test.
ServeFromCacheAnyDay(cache, username, day_str, today_str) ==
    <<username, day_str>> \in DOMAIN cache

\* Variant of ServeFromCache that takes a zero-scrobble entry for a miss.
ServeFromCacheNonEmpty(cache, username, day_str, today_str) ==
    /\ day_str # today_str
    /\ <<username, day_str>> \in DOMAIN cache
    /\ cache[<<username, day_str>>].scrobble_count > 0

\* `day_str != today_str` and the entry is in the mirror: the weekly loop
\* takes the day from the daily cache.
ServeFromCache(cache, username, day_str, today_str) ==
    day_str # today_str /\ <<username, day_str>> \in DOMAIN cache

\* The log of a get_user_scrobbles call is dropped when the call is over.
ForgetFetch(l) == [l EXCEPT !.reqs = <<>>, !.declared = <<>>, !.raw = <<>>]

\* Variant of AfterRaise in which the weekly loop does not catch.
AfterRaiseAbort(l, err) ==
    [ForgetFetch(l) EXCEPT !.pc = "done", !.error = err, !.scrobbles = <<>>]

\* Locals after get_user_scrobbles raised: index reports the error, the
\* weekly loop substitutes the day and goes on.
AfterRaise(l, err) ==
    IF l.kind = "daily"
    THEN [ForgetFetch(l) EXCEPT !.pc = "done", !.error = err,
                                !.scrobbles = <<>>]
    ELSE [ForgetFetch(l) EXCEPT !.pc = "week", !.scrobbles = <<>>,
                   !.weekly_data = Append(@, ErrorDayRecord(l.date_str)),
                   !.day_offset = @ + 1, !.page = 1, !.total_pages = 1,
                   !.failed = @ \cup {l.date_str}]

\* index: the daily view is asked for a user and a date; per_page and
\* current_page are read from the request before anything is fetched.
StartDailyWith(t, per_page, current_page) ==
    /\ loc[t].pc = "idle"
    /\ served[t] < MaxRequests
    /\ \E u \in Users, d \in 0 .. MaxToday :
        SetLoc(t, [LocInit EXCEPT !.pc = "gus", !.kind = "daily",
                                  !.username = u, !.date_str = d,
                                  !.per_page = per_page,
                                  !.current_page = current_page])
    /\ served' = [served EXCEPT ![t] = @ + 1]
    /\ UNCHANGED <<song_duration_cache, song_file, daily_stats_cache,
                   daily_file, cache_lock, daily_cache_lock, today, hist,
                   faults>>

\* GET /?username=..&date=..&per_page=..&page=..
StartDaily(t) ==
    \E per_page \in PerPages, current_page \in CurrentPages :
        StartDailyWith(t, per_page, current_page)

\* GET /?username=..&date=.. : per_page and page take their defaults.
StartDailyDefault(t) == StartDailyWith(t, DEFAULT_ITEMS_PER_PAGE, 1)

\* weekly_stats: get_weekly_listening_data starts; today_str is read once.
StartWeekly(t) ==
    /\ loc[t].pc = "idle"
    /\ served[t] < MaxRequests
    /\ Cardinality({o \in Threads : loc[o].kind = "weekly"}) < MaxWeekly
    /\ \E u \in Users, s \in StartDates :
        SetLoc(t, [LocInit EXCEPT !.pc = "week", !.kind = "weekly",
                                  !.username = u, !.start_date = s,
                                  !.today_str = today])
    /\ served' = [served EXCEPT ![t] = @ + 1]
    /\ UNCHANGED <<song_duration_cache, song_file, daily_stats_cache,
                   daily_file, cache_lock, daily_cache_lock, today, hist,
                   faults>>

\* Weekly loop, cached branch: the day's record comes from the mirror.
WeekCached(t) ==
    LET l == loc[t]
        day_str == l.start_date + l.day_offset
    IN /\ l.pc = "week"
       /\ l.day_offset < DaysPerWeek
       /\ ServeFromCache(daily_stats_cache, l.username, day_str, l.today_str)
       /\ LET cached_data == daily_stats_cache[<<l.username, day_str>>]
          IN SetLoc(t, [l EXCEPT
                 !.weekly_data = Append(@, DayRecord(day_str,
                     cached_data.total_time, cached_data.scrobble_count)),
                 !.day_offset = @ + 1])
       /\ UNCHANGED <<song_duration_cache, song_file, daily_stats_cache,
                      daily_file, cache_lock, daily_cache_lock, today, hist,
                      faults, served>>

\* Weekly loop, other branch: get_scrobbles_and_time is called for the day.
WeekFetch(t) ==
    LET l == loc[t]
        day_str == l.start_date + l.day_offset
    IN /\ l.pc = "week"
       /\ l.day_offset < DaysPerWeek
       /\ ~ServeFromCache(daily_stats_cache, l.username, day_str, l.today_str)
       /\ SetLoc(t, [l EXCEPT !.pc = "gus", !.date_str = day_str,
                              !.page = 1, !.total_pages = 1,
                              !.scrobbles = <<>>, !.daycalls = 0,
                              !.page_fault = "none"])
       /\ UNCHANGED <<song_duration_cache, song_file, daily_stats_cache,
                      daily_file, cache_lock, daily_cache_lock, today, hist,
                      faults, served>>

RECURSIVE SumField(_, _)
SumField(data, f) ==
    IF data = <<>> THEN 0 ELSE Head(data)[f] + SumField(Tail(data), f)

\* The loop is over: weekly_stats sums the seven days.
WeekDone(t) ==
    LET l == loc[t]
        any == \E i \in 1 .. Len(l.weekly_data) :
                   l.weekly_data[i].total_seconds > 0
    IN /\ l.pc = "week"
       /\ l.day_offset >= DaysPerWeek
       /\ SetLoc(t, [l EXCEPT
              !.pc = "done",
              !.error = IF any THEN "none" ELSE "empty",
              !.weekly_totals =
                  IF any THEN TimeOf(SumField(l.weekly_data, "total_seconds"))
                  ELSE ZeroTime,
              !.total_tracks =
                  IF any THEN SumField(l.weekly_data, "scrobble_count")
                  ELSE 0])
       /\ UNCHANGED <<song_duration_cache, song_file, daily_stats_cache,
                      daily_file, cache_lock, daily_cache_lock, today, hist,
                      faults, served>>

\* The response is rendered and the thread is free again.
Respond(t) ==
    /\ loc[t].pc = "done"
    /\ SetLoc(t, LocInit)
    /\ UNCHANGED <<song_duration_cache, song_file, daily_stats_cache,
                   daily_file, cache_lock, daily_cache_lock, today, hist,
                   faults, served>>


\* ---- get_user_scrobbles ----

\* `while page <= total_pages`: the request for the page goes out.
GusSend(t) ==
    LET l == loc[t]
    IN /\ l.pc = "gus"
       /\ l.page <= l.total_pages
       /\ SetLoc(t, [l EXCEPT !.pc = "gus_wait", !.netcalls = @ + 1,
                              !.daycalls = @ + 1,
                              !.reqs = Append(@, l.page)])
       /\ UNCHANGED <<song_duration_cache, song_file, daily_stats_cache,
                      daily_file, cache_lock, daily_cache_lock, today, hist,
                      faults, served>>

\* The loop has ended (condition false, or break): sort and return.
GusFinished(l) ==
    [l EXCEPT !.pc = "calc", !.scrobbles = SortDesc(@), !.idx = 1,
              !.total_seconds = 0]

GusExit(t) ==
    LET l == loc[t]
    IN /\ l.pc = "gus"
       /\ l.page > l.total_pages
       /\ SetLoc(t, GusFinished(l))
       /\ UNCHANGED <<song_duration_cache, song_file, daily_stats_cache,
                      daily_file, cache_lock, daily_cache_lock, today, hist,
                      faults, served>>

\* Variant of PageReceived that reads total_pages from the first
\* response only.
PageReceivedFirstTotal(l, data) ==
    [l EXCEPT !.pc = "gus",
              !.total_pages = IF l.declared = <<>> THEN data.totalPages ELSE @,
              !.scrobbles = @ \o Normalize(data.tracks),
              !.page = @ + 1,
              !.declared = Append(@, data.totalPages),
              !.raw = @ \o data.tracks]

\* Locals after a well-formed page: total_pages is read from it, its
\* tracks are appended, page is incremented.
PageReceived(l, data) ==
    [l EXCEPT !.pc = "gus",
              !.total_pages = data.totalPages,
              !.scrobbles = @ \o Normalize(data.tracks),
              !.page = @ + 1,
              !.declared = Append(@, data.totalPages),
              !.raw = @ \o data.tracks]

\* A well-formed page of the user's history arrives; while the window is
\* today's the user may be playing a track now.
GusRecvPage(t) ==
    LET l == loc[t]
    IN /\ l.pc = "gus_wait"
       /\ \E playing \in {FALSE, l.date_str = today} :
            LET data == PageReply(StartTimestamp(l.date_str),
                                  EndTimestamp(l.date_str), l.page, playing)
            IN SetLoc(t, PageReceived(l, data))
       /\ UNCHANGED <<song_duration_cache, song_file, daily_stats_cache,
                      daily_file, cache_lock, daily_cache_lock, today, hist,
                      faults, served>>

\* Any well-formed page arrives: whatever tracks, in whatever order, and
\* whatever totalPages the service chooses to send.
GusRecvRaw(t) ==
    LET l == loc[t]
    IN /\ l.pc = "gus_wait"
       /\ \E tracks \in RawPages, total \in 0 .. MaxDeclared :
            SetLoc(t, PageReceived(l, [tracks |-> tracks,
                                       totalPages |-> total]))
       /\ UNCHANGED <<song_duration_cache, song_file, daily_stats_cache,
                      daily_file, cache_lock, daily_cache_lock, today, hist,
                      faults, served>>

\* What get_user_scrobbles does with a response that is not a page of
\* tracks: "raise" with the error reported, or "break" out of the loop.
\* network: the transport failed; api: the document has an "error" field;
\* malformed: a field has the wrong type; noshape: the document has no
\* recenttracks.track.
PageFaults == {"network", "api", "malformed", "noshape"}
OnPageFault(fault) == IF fault = "noshape" THEN "break" ELSE "raise"

GusRecvFault(t) ==
    LET l == loc[t]
    IN /\ l.pc = "gus_wait"
       /\ faults < MaxFaults
       /\ \E fault \in PageFaults :
            IF OnPageFault(fault) = "break"
            THEN SetLoc(t, GusFinished([l EXCEPT !.page_fault = fault]))
            ELSE SetLoc(t, AfterRaise([l EXCEPT !.page_fault = fault],
                                      fault))
       /\ faults' = faults + 1
       /\ UNCHANGED <<song_duration_cache, song_file, daily_stats_cache,
                      daily_file, cache_lock, daily_cache_lock, today, hist,
                      served>>

\* ---- calculate_listening_time and get_track_duration ----

\* Next track, found in the mirror: no request is made.
GtdHit(t) ==
    LET l == loc[t]
    IN /\ l.pc = "calc"
       /\ l.idx <= Len(l.scrobbles)
       /\ CacheHit(song_duration_cache, l.scrobbles[l.idx].key)
       /\ SetLoc(t, [ForgetFetch(l) EXCEPT
              !.pc = "gtd_ret", !.hit = TRUE,
              !.duration = song_duration_cache[l.scrobbles[l.idx].key]])
       /\ UNCHANGED <<song_duration_cache, song_file, daily_stats_cache,
                      daily_file, cache_lock, daily_cache_lock, today, hist,
                      faults, served>>

\* Next track, not in the mirror: the track.getInfo request goes out.
GtdMiss(t) ==
    LET l == loc[t]
    IN /\ l.pc = "calc"
       /\ l.idx <= Len(l.scrobbles)
       /\ ~CacheHit(song_duration_cache, l.scrobbles[l.idx].key)
       /\ SetLoc(t, [ForgetFetch(l) EXCEPT !.pc = "gtd_wait", !.hit = FALSE,
                              !.netcalls = @ + 1, !.daycalls = @ + 1])
       /\ UNCHANGED <<song_duration_cache, song_file, daily_stats_cache,
                      daily_file, cache_lock, daily_cache_lock, today, hist,
                      faults, served>>

\* The reply arrives (or the request fails) and the duration is derived.
GtdRecv(t) ==
    LET l == loc[t]
    IN /\ l.pc = "gtd_wait"
       /\ \E reply \in TrackReplies(l.scrobbles[l.idx].key) :
            /\ reply.kind = "transport" => faults < MaxFaults
            /\ faults' = IF reply.kind = "transport" THEN faults + 1
                         ELSE faults
            /\ SetLoc(t, [l EXCEPT !.pc = "ssc_lock", !.reply = reply,
                                   !.duration = DurationFromReply(reply)])
       /\ UNCHANGED <<song_duration_cache, song_file, daily_stats_cache,
                      daily_file, cache_lock, daily_cache_lock, today, hist,
                      served>>

\* The same step against a service that may answer with any outcome.
GtdRecvAny(t) ==
    LET l == loc[t]
    IN /\ l.pc = "gtd_wait"
       /\ \E reply \in AnyTrackReplies :
            /\ reply.kind = "transport" => faults < MaxFaults
            /\ faults' = IF reply.kind = "transport" THEN faults + 1
                         ELSE faults
            /\ SetLoc(t, [l EXCEPT !.pc = "ssc_lock", !.reply = reply,
                                   !.duration = DurationFromReply(reply)])
       /\ UNCHANGED <<song_duration_cache, song_file, daily_stats_cache,
                      daily_file, cache_lock, daily_cache_lock, today, hist,
                      served>>

\* ---- save_song_to_cache ----

\* Variant of LockFree for a lock that excludes nobody.
LockFreeAlways(lock) == TRUE

\* threading.Lock: acquire blocks until the lock is free.
LockFree(lock) == lock = NoLock

\* Variant of Release that leaves the lock with its holder.
ReleaseNever(holder) == holder

\* End of a `with lock:` block, left normally or after the except branch.
Release(holder) == NoLock

SscAcquire(t) ==
    /\ loc[t].pc = "ssc_lock"
    /\ LockFree(cache_lock)
    /\ cache_lock' = t
    /\ SetLoc(t, [loc[t] EXCEPT !.pc = "ssc_open"])
    /\ UNCHANGED <<song_duration_cache, song_file, daily_stats_cache,
                   daily_file, daily_cache_lock, today, hist, faults, served>>

\* os.path.exists, then open(..., "a"), which creates the file.
SscOpen(t) ==
    /\ loc[t].pc = "ssc_open"
    /\ SetLoc(t, [loc[t] EXCEPT !.pc = "ssc_write",
                                !.file_exists = song_file.exists])
    /\ song_file' = [song_file EXCEPT !.exists = TRUE]
    /\ UNCHANGED <<song_duration_cache, daily_stats_cache, daily_file,
                   cache_lock, daily_cache_lock, today, hist, faults, served>>

\* The mirror after the except branch of save_song_to_cache was taken.
SongCacheAfterFailedWrite(cache, key, duration) == cache

\* Variant of AfterSongWriteFailed in which the error escapes the save.
AfterSongWriteFailedAbort(l) ==
    [l EXCEPT !.pc = "done", !.error = "cache", !.write_ok = FALSE]

\* Locals after the except branch: the error is logged and swallowed, and
\* get_track_duration goes on to return the duration.
AfterSongWriteFailed(l) == [l EXCEPT !.pc = "gtd_ret", !.write_ok = FALSE]

\* open raises: the error is logged, the mirror is not updated, the lock
\* is released.
SscOpenFail(t) ==
    LET l == loc[t]
    IN /\ l.pc = "ssc_open"
       /\ faults < MaxFaults
       /\ faults' = faults + 1
       /\ song_duration_cache' =
              SongCacheAfterFailedWrite(song_duration_cache,
                                        l.scrobbles[l.idx].key, l.duration)
       /\ cache_lock' = Release(cache_lock)
       /\ SetLoc(t, AfterSongWriteFailed(l))
       /\ UNCHANGED <<song_file, daily_stats_cache, daily_file,
                      daily_cache_lock, today, hist, served>>

\* Rows that one save appends: the header when the file is new, the song.
RowsToWrite(file_exists, key, duration) ==
    (IF file_exists THEN <<>> ELSE <<HeaderRow>>)
    \o <<SongRow(key, duration)>>

\* What a write that raises can leave behind of the bytes it was to
\* append: any leading part of them, from nothing (the buffer is never
\* flushed) to all of them (the close raises after the last byte is
\* stored). The texts of the model are ASCII, a character is a byte.
BytesOfFailedWrite(bytes) ==
    {SubSeq(bytes, 1, n) : n \in 0 .. Len(bytes)}

\* open has created or opened the file and a writerow, the flush or the
\* close raises: the error is logged, the mirror is not updated, the lock
\* is released.
SscWriteFail(t) ==
    LET l == loc[t]
        key == l.scrobbles[l.idx].key
    IN /\ l.pc = "ssc_write"
       /\ faults < MaxFaults
       /\ faults' = faults + 1
       /\ \E written \in BytesOfFailedWrite(
                  BytesOf(RowsToWrite(l.file_exists, key, l.duration))) :
              song_file' = [song_file EXCEPT !.bytes = @ \o written]
       /\ song_duration_cache' =
              SongCacheAfterFailedWrite(song_duration_cache, key, l.duration)
       /\ cache_lock' = Release(cache_lock)
       /\ SetLoc(t, AfterSongWriteFailed(l))
       /\ UNCHANGED <<daily_stats_cache, daily_file, daily_cache_lock, today,
                      hist, served>>

\* The bytes of the rows are appended, the mirror is updated, the lock is
\* released.
SscWrite(t) ==
    LET l == loc[t]
        key == l.scrobbles[l.idx].key
    IN /\ l.pc = "ssc_write"
       /\ song_file' = [song_file EXCEPT !.bytes =
              @ \o BytesOf(RowsToWrite(l.file_exists, key, l.duration))]
       /\ song_duration_cache' = Put(song_duration_cache, key, l.duration)
       /\ cache_lock' = Release(cache_lock)
       /\ SetLoc(t, [l EXCEPT !.pc = "gtd_ret", !.write_ok = TRUE])
       /\ UNCHANGED <<daily_stats_cache, daily_file, daily_cache_lock, today,
                      hist, faults, served>>

\* get_track_duration returns: the duration is stored on the track and
\* added to the total.
GtdReturn(t) ==
    LET l == loc[t]
    IN /\ l.pc = "gtd_ret"
       /\ SetLoc(t, [l EXCEPT
              !.pc = "calc",
              !.scrobbles = [@ EXCEPT ![l.idx].duration = l.duration],
              !.total_seconds = @ + l.duration,
              !.idx = @ + 1,
              !.reply = NoReply, !.duration = 0, !.hit = FALSE,
              !.write_ok = FALSE, !.file_exists = FALSE])
       /\ UNCHANGED <<song_duration_cache, song_file, daily_stats_cache,
                      daily_file, cache_lock, daily_cache_lock, today, hist,
                      faults, served>>

\* All tracks are resolved: the total is converted to h/m/s.
CalcDone(t) ==
    LET l == loc[t]
    IN /\ l.pc = "calc"
       /\ l.idx > Len(l.scrobbles)
       /\ SetLoc(t, [ForgetFetch(l) EXCEPT
              !.pc = "sds_lock", !.total_time = TimeOf(l.total_seconds)])
       /\ UNCHANGED <<song_duration_cache, song_file, daily_stats_cache,
                      daily_file, cache_lock, daily_cache_lock, today, hist,
                      faults, served>>

\* ---- save_daily_stats_to_cache ----

SdsAcquire(t) ==
    /\ loc[t].pc = "sds_lock"
    /\ LockFree(daily_cache_lock)
    /\ daily_cache_lock' = t
    /\ SetLoc(t, [loc[t] EXCEPT !.pc = "sds_update"])
    /\ UNCHANGED <<song_duration_cache, song_file, daily_stats_cache,
                   daily_file, cache_lock, today, hist, faults, served>>

\* The stats get_scrobbles_and_time passes to the daily cache.
StatsOf(l) ==
    [total_time |-> l.total_time, scrobble_count |-> Len(l.scrobbles)]

\* The mirror is updated, then open(..., "w") truncates the file.
SdsUpdate(t) ==
    LET l == loc[t]
    IN /\ l.pc = "sds_update"
       /\ daily_stats_cache' =
              Put(daily_stats_cache, <<l.username, l.date_str>>, StatsOf(l))
       /\ daily_file' = [state |-> "truncated", doc |-> <<>>]
       /\ SetLoc(t, [l EXCEPT !.pc = "sds_dump"])
       /\ UNCHANGED <<song_duration_cache, song_file, cache_lock,
                      daily_cache_lock, today, hist, faults, served>>

\* Locals after the except branch of save_daily_stats_to_cache.
AfterDailyWriteFailed(l) == [l EXCEPT !.pc = "gsat_ret", !.write_ok = FALSE]

\* The mirror is updated, then open raises: logged, lock released.
SdsOpenFail(t) ==
    LET l == loc[t]
    IN /\ l.pc = "sds_update"
       /\ faults < MaxFaults
       /\ faults' = faults + 1
       /\ daily_stats_cache' =
              Put(daily_stats_cache, <<l.username, l.date_str>>, StatsOf(l))
       /\ daily_cache_lock' = Release(daily_cache_lock)
       /\ SetLoc(t, AfterDailyWriteFailed(l))
       /\ UNCHANGED <<song_duration_cache, song_file, daily_file, cache_lock,
                      today, hist, served>>

\* Variant of DocumentToWrite that writes the entry just put and no other.
DocumentOfLastPut(cache, key) == [x \in {key} |-> cache[key]]

\* json.dump({"daily_stats": daily_stats_cache}): the whole mirror.
DocumentToWrite(cache, key) == cache

\* json.dump writes the document; the lock is released.
SdsDump(t) ==
    LET l == loc[t]
    IN /\ l.pc = "sds_dump"
       /\ daily_file' =
              [state |-> "written",
               doc |-> DocumentToWrite(daily_stats_cache,
                                       <<l.username, l.date_str>>)]
       /\ daily_cache_lock' = Release(daily_cache_lock)
       /\ SetLoc(t, [l EXCEPT !.pc = "gsat_ret", !.write_ok = TRUE])
       /\ UNCHANGED <<song_duration_cache, song_file, daily_stats_cache,
                      cache_lock, today, hist, faults, served>>

\* What a json.dump or a close that raises leaves of the file that open
\* has truncated: no document when the write is cut, the whole document
\* when the close raises after the last byte is stored.
DocumentsOfFailedWrite(file, document) ==
    {file, [state |-> "written", doc |-> document]}

\* open has truncated the file and json.dump or the close raises: the
\* mirror keeps the entry, the error is logged, the lock is released.
SdsDumpFail(t) ==
    LET l == loc[t]
    IN /\ l.pc = "sds_dump"
       /\ faults < MaxFaults
       /\ faults' = faults + 1
       /\ daily_file' \in DocumentsOfFailedWrite(daily_file,
              DocumentToWrite(daily_stats_cache, <<l.username, l.date_str>>))
       /\ daily_cache_lock' = Release(daily_cache_lock)
       /\ SetLoc(t, AfterDailyWriteFailed(l))
       /\ UNCHANGED <<song_duration_cache, song_file, daily_stats_cache,
                      cache_lock, today, hist, served>>

\* index after get_scrobbles_and_time returned: the page count and the
\* slice shown; per_page = 0 raises in the division and is reported.
Paginate(l) ==
    IF l.per_page = 0
    THEN [l EXCEPT !.pc = "done", !.write_ok = FALSE,
                   !.total_scrobbles = Len(l.scrobbles),
                   !.error = "zerodivision"]
    ELSE LET shown == PageOf(l.scrobbles, l.current_page, l.per_page)
         IN [l EXCEPT !.pc = "done", !.write_ok = FALSE,
                      !.total_scrobbles = Len(l.scrobbles),
                      !.page_count = PageCount(Len(l.scrobbles), l.per_page),
                      !.shown = shown,
                      !.error = IF shown = <<>> THEN "empty" ELSE "none"]

\* get_scrobbles_and_time returns (scrobbles, total_time) to its caller.
GsatReturn(t) ==
    LET l == loc[t]
    IN /\ l.pc = "gsat_ret"
       /\ IF l.kind = "daily"
          THEN SetLoc(t, Paginate(l))
          ELSE SetLoc(t, [l EXCEPT
                   !.pc = "week", !.write_ok = FALSE,
                   !.weekly_data = Append(@, DayRecord(l.date_str,
                       l.total_time, Len(l.scrobbles))),
                   !.day_offset = @ + 1, !.scrobbles = <<>>,
                   !.total_seconds = 0, !.total_time = ZeroTime,
                   !.idx = 1, !.page = 1, !.total_pages = 1])
       /\ UNCHANGED <<song_duration_cache, song_file, daily_stats_cache,
                      daily_file, cache_lock, daily_cache_lock, today, hist,
                      faults, served>>

\* ------------------------------------------------------- specification ---

\* One step of a request handler that has started.
HandlerStep(t) ==
        \/ WeekCached(t) \/ WeekFetch(t) \/ WeekDone(t)
        \/ GusSend(t) \/ GusExit(t) \/ GusRecvPage(t) \/ GusRecvFault(t)
        \/ GtdHit(t) \/ GtdMiss(t) \/ GtdRecv(t) \/ GtdReturn(t)
        \/ SscAcquire(t) \/ SscOpen(t) \/ SscOpenFail(t) \/ SscWrite(t)
        \/ SscWriteFail(t)
        \/ CalcDone(t)
        \/ SdsAcquire(t) \/ SdsUpdate(t) \/ SdsOpenFail(t) \/ SdsDump(t)
        \/ SdsDumpFail(t)
        \/ GsatReturn(t)
        \/ Respond(t)

\* One step of request thread t: a daily view with paging arguments, a
\* weekly view, or a step of the running handler.
ThreadStep(t) == StartDaily(t) \/ StartWeekly(t) \/ HandlerStep(t)

\* The same with daily views asked for without paging arguments.
ThreadStepDefault(t) ==
    StartDailyDefault(t) \/ StartWeekly(t) \/ HandlerStep(t)

\* One worker thread serves requests while the user keeps listening and
\* the days pass.
Next == Scrobble \/ Tick \/ ThreadStep(Main)

Spec ==
    /\ Init
    /\ [][Next]_vars

\* All worker threads serve one request each, concurrently, against a
\* history of different tracks that does not change meanwhile.
Histories ==
    {[d \in Dates |-> IF d = 0 THEN h ELSE <<>>] :
        h \in {<<KeyA>>, <<KeyA, KeyB>>, <<KeyA, KeyA>>}}

\* Histories in which no track is played twice.
DistinctHistories ==
    {h \in Histories :
        \A d \in Dates : \A i, j \in DOMAIN h[d] : h[d][i] = h[d][j] => i = j}

InitConc ==
    /\ song_duration_cache = <<>>
    /\ song_file = EmptyFile
    /\ daily_stats_cache = <<>>
    /\ daily_file = [state |-> "absent", doc |-> <<>>]
    /\ cache_lock = NoLock
    /\ daily_cache_lock = NoLock
    /\ today = MaxToday
    /\ hist \in DistinctHistories
    /\ faults = 0
    /\ served = [t \in Threads |-> MaxRequests - 1]
    /\ loc = [t \in Threads |-> LocInit]

NextConc == \E t \in Threads : ThreadStepDefault(t)

SpecConc ==
    /\ InitConc
    /\ [][NextConc]_vars

\* One call of the listening-history client against a service that may
\* answer each page request with any well-formed page or with a failure.
NextFetch ==
    \/ StartDailyDefault(Main)
    \/ GusSend(Main) \/ GusRecvRaw(Main) \/ GusRecvFault(Main)
    \/ GusExit(Main)

SpecFetch ==
    /\ Init
    /\ [][NextFetch]_vars

\* One worker resolves the durations of one day's tracks against a
\* track service that may answer with any outcome.
InitResolve ==
    /\ song_duration_cache = <<>>
    /\ song_file = EmptyFile
    /\ daily_stats_cache = <<>>
    /\ daily_file = [state |-> "absent", doc |-> <<>>]
    /\ cache_lock = NoLock
    /\ daily_cache_lock = NoLock
    /\ today = MaxToday
    /\ hist \in Histories
    /\ faults = 0
    /\ served = [t \in Threads |-> IF t = Main THEN 0 ELSE MaxRequests]
    /\ loc = [t \in Threads |-> LocInit]

NextResolve ==
    \/ StartDailyDefault(Main)
    \/ GusSend(Main) \/ GusRecvPage(Main) \/ GusExit(Main)
    \/ GtdHit(Main) \/ GtdMiss(Main) \/ GtdRecvAny(Main)
    \/ SscAcquire(Main) \/ SscOpen(Main) \/ SscOpenFail(Main)
    \/ SscWrite(Main) \/ SscWriteFail(Main)
    \/ GtdReturn(Main)

SpecResolve ==
    /\ InitResolve
    /\ [][NextResolve]_vars

\* Process start: both mirrors are loaded from their files.
Boot(t) ==
    /\ loc[t].pc = "boot"
    /\ song_duration_cache' = load_song_cache(song_file)
    /\ daily_stats_cache' = load_daily_stats_cache(daily_file)
    /\ SetLoc(t, [loc[t] EXCEPT !.pc = "idle"])
    /\ UNCHANGED <<song_file, daily_file, cache_lock, daily_cache_lock,
                   today, hist, faults, served>>

\* Files the process can find when it starts.
\* Rows of such a file: the header, a row of two fields, a row whose third
\* field is no integer, rows of songs.
FileRows ==
    {HeaderRow, <<KeyA[1], KeyA[2]>>, <<KeyB[1], KeyB[2], KeyB[2]>>,
     SongRow(KeyA, 200), SongRow(KeyA, DEFAULT_DURATION),
     SongRow(KeyB, DEFAULT_DURATION)}
SongFiles ==
    {EmptyFile}
    \cup {[exists |-> TRUE, bytes |-> BytesOf(r)] :
            r \in UNION {[1 .. n -> FileRows] : n \in 0 .. MaxFileRows}}
DailyFiles ==
    {[state |-> "absent", doc |-> <<>>], [state |-> "truncated", doc |-> <<>>],
     [state |-> "written", doc |-> <<>>],
     [state |-> "written",
      doc |-> Put(<<>>, <<"alice", 0>>,
                  [total_time |-> ZeroTime, scrobble_count |-> 0])]}

\* The process starts on files of any content and loads them.
InitLoad ==
    /\ song_duration_cache = <<>>
    /\ song_file \in SongFiles
    /\ daily_stats_cache = <<>>
    /\ daily_file \in DailyFiles
    /\ cache_lock = NoLock
    /\ daily_cache_lock = NoLock
    /\ today = 0
    /\ hist = [d \in Dates |-> <<>>]
    /\ faults = 0
    /\ served = [t \in Threads |-> MaxRequests]
    /\ loc = [t \in Threads |->
                IF t = Main THEN [LocInit EXCEPT !.pc = "boot"] ELSE LocInit]

NextLoad == Boot(Main)

SpecLoad ==
    /\ InitLoad
    /\ [][NextLoad]_vars


\* ================================================================ claims =

KeyOf(l) == l.scrobbles[l.idx].key
ZeroStats == [total_time |-> ZeroTime, scrobble_count |-> 0]

\* C1: when duration resolution is called a second time for an (artist,
\* track) pair, the second call is a cache hit (no request) and returns
\* the value of the first call, whatever happened to the first call's
\* request and cache write. Here: a track of the day's list whose pair
\* was already resolved earlier in the same list.
C1_SecondCallIsHit ==
    \A t \in Threads :
        LET l == loc[t]
        IN l.pc = "gtd_ret" =>
            \A j \in 1 .. (l.idx - 1) :
                l.scrobbles[j].key = KeyOf(l) =>
                    l.hit /\ l.duration = l.scrobbles[j].duration

\* C2: the weekly loop never takes the record of the date that was today
\* when the call started from the daily cache; a record appended without
\* leaving the loop (the cached branch) is for another date.
C2_TodayNeverFromCache ==
    [][\A t \in Threads :
        (/\ loc[t].pc = "week"
         /\ loc'[t].pc = "week"
         /\ Len(loc'[t].weekly_data) > Len(loc[t].weekly_data))
        => loc[t].start_date + loc[t].day_offset # loc[t].today_str]_vars

\* A weekly call fetches today afresh although the mirror has an entry.
C2_Witness ==
    \E t \in Threads :
        /\ loc[t].kind = "weekly"
        /\ loc[t].pc = "gus_wait"
        /\ loc[t].date_str = loc[t].today_str
        /\ <<loc[t].username, loc[t].date_str>> \in DOMAIN daily_stats_cache

\* C3 as stated: once a zero-scrobble result is in the daily cache for
\* (username, date), no later query of that (username, date) makes a
\* network call.
C3_ZeroDayNeverRefetched ==
    \A t \in Threads :
        LET l == loc[t]
            k == <<l.username, l.date_str>>
        IN l.pc = "gus_wait" =>
            ~(k \in DOMAIN daily_stats_cache
              /\ daily_stats_cache[k].scrobble_count = 0)

\* C3 as amended: a day whose fetch returns zero scrobbles has total 0 and
\* count 0 and that result is put in the daily cache (and in the file when
\* the write succeeds); a later weekly aggregation takes that day from the
\* cache without a network call when the date is not today at call time.
C3_ZeroDayCachedForWeekly ==
    \A t \in Threads :
        LET l == loc[t]
            k == <<l.username, l.date_str>>
        IN /\ (l.pc = "gsat_ret" /\ Len(l.scrobbles) = 0) =>
                /\ l.total_time = ZeroTime
                /\ k \in DOMAIN daily_stats_cache
                /\ daily_stats_cache[k] = ZeroStats
                /\ l.write_ok =>
                      /\ daily_file.state = "written"
                      /\ k \in DOMAIN daily_file.doc
                      /\ daily_file.doc[k] = ZeroStats
           /\ (/\ l.kind = "weekly"
               /\ l.pc \in {"gus", "gus_wait"}
               /\ l.date_str # l.today_str) =>
                ~(k \in DOMAIN daily_stats_cache
                  /\ daily_stats_cache[k].scrobble_count = 0)

\* A weekly call has taken its first day, a zero-scrobble day that is not
\* today, from the cache and has made no network call.
C3_Witness ==
    \E t \in Threads :
        LET l == loc[t]
        IN /\ l.kind = "weekly"
           /\ l.pc = "week"
           /\ l.day_offset = 1
           /\ l.netcalls = 0
           /\ l.start_date # l.today_str
           /\ l.weekly_data[1].scrobble_count = 0
           /\ daily_stats_cache[<<l.username, l.start_date>>] = ZeroStats

\* What an independent Daily Aggregator call for the date returns now, the
\* upstream answering every request: the scrobbles of the date's window
\* and the sum of their durations, each from the mirror or else from
\* track.getInfo.
FreshScrobbles(d) ==
    Normalize(RecentTracks(StartTimestamp(d), EndTimestamp(d)))
RECURSIVE FreshSeconds(_)
FreshSeconds(s) ==
    IF s = <<>> THEN 0
    ELSE (IF CacheHit(song_duration_cache, Head(s).key)
          THEN song_duration_cache[Head(s).key]
          ELSE DurationFromReply([kind |-> "ms", ms |-> TrackMs[Head(s).key]]))
         + FreshSeconds(Tail(s))

\* C4: the weekly aggregation's per-day and summed total_seconds and
\* scrobble_count equal those of seven independent daily aggregations of
\* the same dates, whatever the daily cache held before (stated for the
\* dates already past when the call starts, whose history no longer
\* changes, and for runs in which no request and no write failed).
C4_WeeklyEqualsDailySum ==
    \A t \in Threads :
        LET l == loc[t]
        IN (l.kind = "weekly" /\ l.pc = "done" /\ faults = 0) =>
            \A i \in 1 .. Len(l.weekly_data) :
                LET fresh == FreshScrobbles(l.weekly_data[i].date)
                IN l.weekly_data[i].date < l.today_str =>
                    /\ l.weekly_data[i].scrobble_count = Len(fresh)
                    /\ l.weekly_data[i].total_seconds = FreshSeconds(fresh)

InSongWrite(t) == loc[t].pc \in {"ssc_open", "ssc_write"}
InDailyWrite(t) == loc[t].pc \in {"sds_update", "sds_dump"}

\* C5: each cache is mutated only by the holder of its one lock: at most
\* one thread is between open and close of the duration file, at most one
\* is updating the daily mirror and file, a thread there holds the lock,
\* and, as long as no write has failed, the files show no interleaved
\* write (one header row, first; the daily file is truncated only while
\* its writer is in the section).
C5_WritesSerialized ==
    /\ Cardinality({t \in Threads : InSongWrite(t)}) <= 1
    /\ Cardinality({t \in Threads : InDailyWrite(t)}) <= 1
    /\ \A t \in Threads :
        /\ InSongWrite(t) => cache_lock = t
        /\ InDailyWrite(t) => daily_cache_lock = t
    /\ faults = 0 =>
        /\ LET rows == CsvRows(song_file.bytes)
           IN \A i \in 1 .. Len(rows) : (rows[i] = HeaderRow) <=> (i = 1)
        /\ daily_file.state = "truncated" =>
            \E t \in Threads : loc[t].pc = "sds_dump"

\* One thread writes the duration file while another waits for the lock.
C5_Witness ==
    \E t, o \in Threads :
        /\ loc[t].pc = "ssc_write"
        /\ loc[o].pc = "ssc_lock"

\* C6 as stated: a value the duration cache holds for a key is never
\* changed by any later step, under any interleaving.
C6_ValuePermanent ==
    [][\A k \in DOMAIN song_duration_cache :
        /\ k \in DOMAIN song_duration_cache'
        /\ song_duration_cache'[k] = song_duration_cache[k]]_vars

\* C6 as amended: a key in the duration cache is never removed, no request
\* is sent for a key that is in the cache when it is looked up, and the
\* stored value changes only when a resolution that had missed before the
\* value was stored completes its own write (the later write wins).
C6_OnlyEarlierMissOverwrites ==
    [][/\ \A k \in DOMAIN song_duration_cache :
            /\ k \in DOMAIN song_duration_cache'
            /\ song_duration_cache'[k] # song_duration_cache[k] =>
                \E t \in Threads :
                    /\ loc[t].pc = "ssc_write"
                    /\ loc'[t].pc = "gtd_ret"
                    /\ KeyOf(loc[t]) = k
                    /\ song_duration_cache'[k] = loc[t].duration
       /\ \A t \in Threads :
            (loc[t].pc = "calc" /\ loc'[t].pc = "gtd_wait") =>
                KeyOf(loc[t]) \notin DOMAIN song_duration_cache]_vars

\* A resolution that missed earlier is about to overwrite a stored value
\* with a different one.
C6_Witness ==
    \E t \in Threads :
        /\ loc[t].pc = "ssc_write"
        /\ KeyOf(loc[t]) \in DOMAIN song_duration_cache
        /\ song_duration_cache[KeyOf(loc[t])] # loc[t].duration

\* C7: a lookup whose request fails, whose reply lacks the duration or
\* reports zero returns 180, and that 180 is then in the cache under the
\* key of the track, so that the next lookup of the track is a hit; no
\* stored duration is 0; and no request is in flight for a key the cache
\* holds.
C7_FallbackIs180AndCached ==
    /\ \A t \in Threads :
        LET l == loc[t]
        IN /\ (/\ l.pc = "gtd_ret"
               /\ ~l.hit
               /\ \/ l.reply.kind \in {"transport", "nofield"}
                  \/ l.reply.kind = "ms" /\ l.reply.ms = 0) =>
                /\ l.duration = DEFAULT_DURATION
                /\ KeyOf(l) \in DOMAIN song_duration_cache
                /\ song_duration_cache[KeyOf(l)] = DEFAULT_DURATION
           /\ l.pc = "gtd_wait" =>
                KeyOf(l) \notin DOMAIN song_duration_cache
    /\ \A k \in DOMAIN song_duration_cache : song_duration_cache[k] # 0

\* C8: get_user_scrobbles returns a list only when no page request failed,
\* carried an error payload or had an unexpected shape.
C8_FaultNeverReturnsList ==
    \A t \in Threads : loc[t].pc = "calc" => loc[t].page_fault = "none"

ZeroRecord(r) ==
    /\ r.total_time = ZeroTime
    /\ r.hours = 0
    /\ r.minutes = 0
    /\ r.total_seconds = 0
    /\ r.scrobble_count = 0

\* C9: when a day of the weekly loop raises, the step appends an all-zero
\* record for that day, moves to the next day and changes neither cache
\* nor the records already built; the records are those of the dates from
\* start_date on, in order, and the call ends with seven of them.
C9_FailedDayIsolated ==
    [][\A t \in Threads :
        LET l == loc[t]
            n == loc'[t]
        IN /\ (l.kind = "weekly" /\ l.pc = "gus_wait"
               /\ n.pc \notin {"gus_wait", "gus", "calc"}) =>
                /\ n.pc = "week"
                /\ n.day_offset = l.day_offset + 1
                /\ Len(n.weekly_data) = Len(l.weekly_data) + 1
                /\ SubSeq(n.weekly_data, 1, Len(l.weekly_data))
                      = l.weekly_data
                /\ ZeroRecord(n.weekly_data[Len(n.weekly_data)])
                /\ n.weekly_data[Len(n.weekly_data)].date = l.date_str
                /\ UNCHANGED <<song_duration_cache, song_file,
                               daily_stats_cache, daily_file>>
           /\ (n.kind = "weekly" /\ n.pc \in {"week", "done"}) =>
                /\ Len(n.weekly_data) = n.day_offset
                /\ \A i \in 1 .. Len(n.weekly_data) :
                    /\ n.weekly_data[i].date = n.start_date + i - 1
                    /\ n.weekly_data[i].date \in n.failed =>
                          ZeroRecord(n.weekly_data[i])
           /\ (n.kind = "weekly" /\ n.pc = "done") =>
                Len(n.weekly_data) = DaysPerWeek]_vars

\* A weekly call has ended with a day that raised and a day with
\* listening time.
C9_Witness ==
    \E t \in Threads :
        LET l == loc[t]
        IN /\ l.kind = "weekly"
           /\ l.pc = "done"
           /\ l.failed # {}
           /\ \E i \in 1 .. Len(l.weekly_data) :
                l.weekly_data[i].total_seconds > 0

\* C10: a failed file write of either cache is swallowed inside the save:
\* the lock is released, the caller goes on with the values it had, the
\* duration returned is the one derived from the reply and the total_time
\* returned is that of the durations of the fetched scrobbles.
C10_WriteFailureNeverAborts ==
    [][\A t \in Threads :
        LET l == loc[t]
            n == loc'[t]
        IN /\ (l.pc \in {"ssc_open", "ssc_write"}
               /\ n.pc \notin {"ssc_open", "ssc_write"}) =>
                /\ n.pc = "gtd_ret"
                /\ n.duration = l.duration
                /\ n.scrobbles = l.scrobbles
                /\ n.error = "none"
                /\ cache_lock' = NoLock
           /\ (l.pc \in {"sds_update", "sds_dump"}
               /\ n.pc \notin {"sds_update", "sds_dump"}) =>
                /\ n.pc = "gsat_ret"
                /\ n.total_time = l.total_time
                /\ n.scrobbles = l.scrobbles
                /\ n.error = "none"
                /\ daily_cache_lock' = NoLock
           /\ (n.pc = "gtd_ret" /\ ~n.hit) =>
                n.duration = DurationFromReply(n.reply)
           /\ n.pc = "gsat_ret" =>
                n.total_time = TimeOf(SumDurations(n.scrobbles))]_vars

\* The duration file could not be written and the lookup still returns
\* the duration the upstream reported.
C10_Witness ==
    \E t \in Threads :
        LET l == loc[t]
        IN /\ l.pc = "gtd_ret"
           /\ ~l.hit
           /\ ~l.write_ok
           /\ l.reply.kind = "ms"
           /\ l.duration = 200

\* Pages 1 .. k of a list, one after the other.
RECURSIVE PagesConcat(_, _, _)
PagesConcat(all, k, per_page) ==
    IF k = 0 THEN <<>>
    ELSE PagesConcat(all, k - 1, per_page) \o PageOf(all, k, per_page)

\* The pagination arithmetic on the lists 1 .. n, n up to MaxListed.
PagingOnLists ==
    \A n \in 0 .. MaxListed, P \in 1 .. (MaxPerPage + 1) :
        LET all == [i \in 1 .. n |-> i]
        IN /\ PageCount(n, P) = CeilDiv(n, P)
           /\ \A k \in 1 .. PageCount(n, P) :
                PageOf(all, k, P) = SubSeq(all, (k - 1) * P + 1, Min(k * P, n))
           /\ PagesConcat(all, PageCount(n, P), P) = all

\* C11: in the daily view, for N scrobbles and page size P >= 1 the page
\* count is ceil(N/P), page k with 1 <= k <= page count shows the scrobbles
\* at offsets [(k-1)P, min(kP, N)), and pages 1 .. ceil(N/P) one after the
\* other are the whole list, nothing twice and nothing left out.
C11_PagesPartitionList ==
    /\ PagingOnLists
    /\ \A t \in Threads :
        LET l == loc[t]
            N == Len(l.scrobbles)
            P == l.per_page
            k == l.current_page
        IN (/\ l.kind = "daily"
            /\ l.pc = "done"
            /\ l.error \in {"none", "empty"}
            /\ P >= 1) =>
            /\ l.total_scrobbles = N
            /\ l.page_count = CeilDiv(N, P)
            /\ (1 <= k /\ k <= l.page_count) =>
                  l.shown = SubSeq(l.scrobbles, (k - 1) * P + 1,
                                   Min(k * P, N))
            /\ PagesConcat(l.scrobbles, l.page_count, P) = l.scrobbles

\* The daily view shows page 2 of a two-scrobble day, one per page.
C11_Witness ==
    \E t \in Threads :
        LET l == loc[t]
        IN /\ l.kind = "daily"
           /\ l.pc = "done"
           /\ Len(l.scrobbles) = 2
           /\ l.per_page = 1
           /\ l.current_page = 2
           /\ l.page_count = 2
           /\ l.shown = <<l.scrobbles[2]>>

\* The entries of the raw tracks that are not now-playing, as received.
KeptOf(raw) ==
    LET kept == SelectSeq(raw, LAMBDA r : ~r.nowplaying)
    IN [i \in 1 .. Len(kept) |->
            [key |-> kept[i].key, timestamp |-> kept[i].uts, duration |-> 0]]
WithTimestamp(s, u) == SelectSeq(s, LAMBDA e : e.timestamp = u)

\* C12: the list get_user_scrobbles returns holds exactly the received
\* entries that are not now-playing, is ordered by timestamp descending,
\* and entries of equal timestamp are in the order they were received.
C12_SortedStableNoNowPlaying ==
    \A t \in Threads :
        LET l == loc[t]
            kept == KeptOf(l.raw)
        IN (l.pc = "calc" /\ l.idx = 1) =>
            /\ Len(l.scrobbles) = Len(kept)
            /\ \A i, j \in 1 .. Len(l.scrobbles) :
                i < j => l.scrobbles[i].timestamp >= l.scrobbles[j].timestamp
            /\ \A u \in {kept[i].timestamp : i \in 1 .. Len(kept)} :
                WithTimestamp(l.scrobbles, u) = WithTimestamp(kept, u)

\* A call has returned after receiving a now-playing entry, an older
\* entry before a newer one, and two different tracks of equal timestamp.
C12_Witness ==
    \E t \in Threads :
        LET l == loc[t]
            kept == KeptOf(l.raw)
        IN /\ l.pc = "calc"
           /\ l.idx = 1
           /\ \E i \in 1 .. Len(l.raw) : l.raw[i].nowplaying
           /\ \E i, j \in 1 .. Len(kept) :
                i < j /\ kept[i].timestamp < kept[j].timestamp
           /\ \E i, j \in 1 .. Len(kept) :
                /\ i < j
                /\ kept[i].timestamp = kept[j].timestamp
                /\ kept[i].key # kept[j].key

\* h/m/s is a consistent encoding of total_seconds.
WellFormedTime(tt) ==
    /\ tt.total_seconds = tt.hours * 3600 + tt.minutes * 60 + tt.seconds
    /\ tt.hours >= 0
    /\ 0 <= tt.minutes /\ tt.minutes < 60
    /\ 0 <= tt.seconds /\ tt.seconds < 60

\* The conversion on every total up to MaxSeconds, and on 200 + 210 + 150.
TimeOfOnTotals ==
    /\ \A n \in 0 .. MaxSeconds :
        WellFormedTime(TimeOf(n)) /\ TimeOf(n).total_seconds = n
    /\ TimeOf(200 + 210 + 150)
         = [hours |-> 0, minutes |-> 9, seconds |-> 20, total_seconds |-> 560]

\* C13: every total_time the Daily Aggregator produces, every one in the
\* daily cache and the weekly totals satisfy total_seconds = hours*3600 +
\* minutes*60 + seconds with minutes and seconds below 60; the daily
\* total_seconds is the sum of the durations resolved for the day's
\* scrobbles, the persisted entry carries their number, and the weekly
\* total is the sum of the seven days.
C13_TimeEncodingConsistent ==
    /\ TimeOfOnTotals
    /\ \A k \in DOMAIN daily_stats_cache :
        WellFormedTime(daily_stats_cache[k].total_time)
    /\ \A t \in Threads :
        LET l == loc[t]
            k == <<l.username, l.date_str>>
        IN /\ l.pc \in {"sds_lock", "sds_update", "sds_dump", "gsat_ret"} =>
                /\ WellFormedTime(l.total_time)
                /\ l.total_time.total_seconds = SumDurations(l.scrobbles)
                /\ \A i \in 1 .. Len(l.scrobbles) :
                    l.scrobbles[i].duration > 0
           /\ l.pc = "gsat_ret" =>
                /\ daily_stats_cache[k].total_time = l.total_time
                /\ daily_stats_cache[k].scrobble_count = Len(l.scrobbles)
           /\ (l.kind = "weekly" /\ l.pc = "done" /\ l.error = "none") =>
                /\ WellFormedTime(l.weekly_totals)
                /\ l.weekly_totals.total_seconds
                      = SumField(l.weekly_data, "total_seconds")
                /\ l.total_tracks = SumField(l.weekly_data, "scrobble_count")

\* A day of two scrobbles resolved to 200 s and 180 s was aggregated to
\* 380 s = 0 h 6 min 20 s and persisted with scrobble_count 2.
C13_Witness ==
    \E t \in Threads :
        LET l == loc[t]
        IN /\ l.pc = "gsat_ret"
           /\ l.total_time
                = [hours |-> 0, minutes |-> 6, seconds |-> 20,
                   total_seconds |-> 380]
           /\ daily_stats_cache[<<l.username, l.date_str>>].scrobble_count = 2

\* get_user_scrobbles has just left its loop without a failing response.
LoopEnded(l) == l.pc = "calc" /\ l.idx = 1 /\ l.page_fault = "none"

\* C14 as stated: the pages requested are 1 .. T, T being the count the
\* first response declared, whatever later responses declare.
C14_FirstDeclaredCountTrusted ==
    \A t \in Threads :
        LET l == loc[t]
        IN LoopEnded(l) =>
            /\ Len(l.reqs) = Max(l.declared[1], 1)
            /\ \A i \in 1 .. Len(l.reqs) : l.reqs[i] = i

\* C14 as amended: the pages are requested as 1, 2, ... in increasing
\* order, each once, one request at a time and none after a failure;
\* total_pages is read again from every response, so page p + 1 is
\* requested only when the response to page p declared more than p pages,
\* and the loop ends after the first page n whose response declares at
\* most n pages.
C14_LatestDeclaredCountDecides ==
    \A t \in Threads :
        LET l == loc[t]
            n == Len(l.reqs)
        IN /\ \A i \in 1 .. n : l.reqs[i] = i
           /\ \A j \in 1 .. (n - 1) : l.declared[j] > j
           /\ l.pc = "gus_wait" => Len(l.declared) = n - 1
           /\ l.pc = "gus" =>
                /\ Len(l.declared) = n
                /\ l.page = n + 1
                /\ l.page_fault = "none"
           /\ LoopEnded(l) =>
                /\ Len(l.declared) = n
                /\ n >= 1
                /\ l.declared[n] <= n

\* A call ended after three pages although the first response declared
\* two.
C14_Witness ==
    \E t \in Threads :
        LET l == loc[t]
        IN /\ LoopEnded(l)
           /\ l.reqs = <<1, 2, 3>>
           /\ l.declared[1] = 2

\* C15: an entry the weekly loop takes from the daily cache for a past
\* date is the aggregate of all the scrobbles of that date; an entry
\* written while the date was still today is never served later (stated
\* for runs in which no request and no write failed).
C15_ServedEntryIsCompleteDay ==
    [][\A t \in Threads :
        LET l == loc[t]
            n == loc'[t]
            day_str == l.start_date + l.day_offset
            fresh == FreshScrobbles(day_str)
        IN (/\ l.kind = "weekly" /\ l.pc = "week" /\ n.pc = "week"
            /\ Len(n.weekly_data) > Len(l.weekly_data)
            /\ day_str < l.today_str
            /\ faults = 0) =>
            /\ n.weekly_data[Len(n.weekly_data)].scrobble_count = Len(fresh)
            /\ n.weekly_data[Len(n.weekly_data)].total_seconds
                  = FreshSeconds(fresh)]_vars

\* C16: the daily cache (mirror and file) changes only in a put made
\* after a listening-history fetch in which every page response was
\* well-formed and free of errors.
C16_CacheChangesOnlyAfterCleanFetch ==
    [][(daily_stats_cache' # daily_stats_cache \/ daily_file' # daily_file)
        => \E t \in Threads :
            /\ InDailyWrite(t)
            /\ loc[t].page_fault = "none"]_vars

\* C17: whenever cache_lock is free, loading the duration file again
\* gives the mirror: the mirror has the most recent write of every key and
\* the load takes the last row of every key, whatever puts came before,
\* failed ones included.
C17_ReloadEqualsMirror ==
    cache_lock = NoLock => load_song_cache(song_file) = song_duration_cache

\* C18: no put to the daily cache is lost: a put leaves its value in the
\* mirror and in the document, no key once in the mirror or the document
\* ever leaves it, and whenever daily_cache_lock is free and nothing has
\* failed the document loads to the mirror.
C18_NoDailyPutLost ==
    [][/\ (daily_cache_lock' = NoLock /\ faults' = 0) =>
            load_daily_stats_cache(daily_file') = daily_stats_cache'
       /\ \A k \in DOMAIN daily_stats_cache : k \in DOMAIN daily_stats_cache'
       /\ daily_file'.state = "written" =>
            \A k \in DOMAIN daily_file.doc : k \in DOMAIN daily_file'.doc
       /\ \A t \in Threads :
            LET l == loc[t]
                k == <<l.username, l.date_str>>
            IN (l.pc = "sds_dump" /\ loc'[t].pc = "gsat_ret") =>
                /\ daily_stats_cache'[k] = StatsOf(l)
                /\ loc'[t].write_ok =>
                      /\ daily_file'.state = "written"
                      /\ daily_file'.doc[k] = StatsOf(l)]_vars

\* Two threads have put different dates; the lock is free and the
\* document holds both entries, as the mirror does.
C18_Witness ==
    /\ daily_cache_lock = NoLock
    /\ faults = 0
    /\ daily_file.state = "written"
    /\ daily_file.doc = daily_stats_cache
    /\ \E t, o \in Threads :
        /\ t # o
        /\ loc[t].kind = "daily" /\ loc[o].kind = "daily"
        /\ loc[t].pc = "gsat_ret" /\ loc[o].pc = "gsat_ret"
        /\ loc[t].date_str # loc[o].date_str
        /\ <<loc[t].username, loc[t].date_str>> \in DOMAIN daily_file.doc
        /\ <<loc[o].username, loc[o].date_str>> \in DOMAIN daily_file.doc

\* C19: after the load the mirror has, for every well-formed row after the
\* header row, the key of the row, with the duration of the last
\* well-formed row of that key, also when malformed rows come before it.
C19_EveryWellFormedRowLoaded ==
    (loc[Main].pc = "idle" /\ song_file.exists) =>
        LET rows == CsvRows(song_file.bytes)
        IN \A i \in 2 .. Len(rows) :
            LET row == rows[i]
                key == <<row[1], row[2]>>
            IN (/\ WellFormedRow(row)
                /\ \A j \in (i + 1) .. Len(rows) :
                    ~(WellFormedRow(rows[j])
                      /\ <<rows[j][1], rows[j][2]>> = key)) =>
                /\ key \in DOMAIN song_duration_cache
                /\ song_duration_cache[key] = IntOf(row[3])

\* A thread with a request to the service in flight.
InNetworkCall(t) == loc[t].pc \in {"gus_wait", "gtd_wait"}

\* C20: a thread holds a cache lock only inside the save of that cache, so
\* never while a request of its own is in flight and never after the save
\* has ended, failed or not; no thread holds both locks; and a thread
\* waiting for a lock waits for a holder that is inside its save, where
\* every step can be taken without waiting, so no interleaving deadlocks.
C20_LocksShortAndNeverNested ==
    \A t \in Threads :
        /\ cache_lock = t => InSongWrite(t)
        /\ daily_cache_lock = t => InDailyWrite(t)
        /\ ~(cache_lock = t /\ daily_cache_lock = t)
        /\ InNetworkCall(t) => (cache_lock # t /\ daily_cache_lock # t)
        /\ loc[t].pc = "ssc_lock" =>
              \/ LockFree(cache_lock)
              \/ \E o \in Threads \ {t} : cache_lock = o /\ InSongWrite(o)
        /\ loc[t].pc = "sds_lock" =>
              \/ LockFree(daily_cache_lock)
              \/ \E o \in Threads \ {t} :
                    daily_cache_lock = o /\ InDailyWrite(o)

\* A thread whose duration write failed has left the save, and another
\* thread is now inside it with the lock.
C20_Witness ==
    \E t, o \in Threads :
        /\ t # o
        /\ loc[t].pc = "gtd_ret" /\ ~loc[t].hit /\ ~loc[t].write_ok
        /\ cache_lock = o
        /\ InSongWrite(o)

\* Whole seconds of a reply, as get_track_duration is to derive them: the
\* seconds contained in a reported duration of a second or more, and 180
\* for every other outcome.
IsSecondsOf(reply, duration) ==
    IF reply.kind = "ms" /\ reply.ms >= MsPerSecond
    THEN /\ duration * MsPerSecond <= reply.ms
         /\ reply.ms < (duration + 1) * MsPerSecond
    ELSE duration = DEFAULT_DURATION

\* C21: every duration that get_track_duration writes to the mirror or to
\* the file, returns, or stores on a track is at least 1, whatever the
\* service answered: a reported duration of a second or more gives its
\* whole seconds, and a zero, sub-second or negative one, a missing or
\* unreadable field and a failed request give 180; so every duration that
\* a row of the file holds is at least 1.
C21_ResolvedDurationPositive ==
    /\ \A k \in DOMAIN song_duration_cache : song_duration_cache[k] >= 1
    /\ LET rows == CsvRows(song_file.bytes)
       IN \A i \in 2 .. Len(rows) :
             WellFormedRow(rows[i]) => IntOf(rows[i][3]) >= 1
    /\ \A t \in Threads :
          LET l == loc[t]
          IN /\ l.pc \in {"ssc_lock", "ssc_open", "ssc_write", "gtd_ret"} =>
                   /\ l.duration >= 1
                   /\ ~l.hit => IsSecondsOf(l.reply, l.duration)
             /\ l.pc \in {"calc", "gtd_wait", "ssc_lock", "ssc_open",
                           "ssc_write", "gtd_ret"} =>
                   \A i \in 1 .. Len(l.scrobbles) :
                       i < l.idx => l.scrobbles[i].duration >= 1

====
